---- MODULE Spec2Model ----
(***************************************************************************)
(* Model of the frame injector of libsql-replication                       *)
(* (libsql-replication/src/injector/mod.rs).                               *)
(*                                                                         *)
(* The Injector buffers WAL frames and, when a frame closes a transaction  *)
(* or the buffer reaches `capacity`, forces the engine to flush so that    *)
(* the injector hook (hook.rs, not part of the sources at hand: modelled   *)
(* from its specification) drains the buffer into the WAL.                 *)
(***************************************************************************)
EXTENDS Integers, Sequences, FiniteSets

\* ------------------------------------------------------------------ bounds
MaxLog == 3        \* longest frame stream handed to the injector
MaxCap == 3        \* largest buffer capacity tried
MaxClears == 1     \* clear_buffer calls per run
MaxFaults == 1     \* engine faults per run
NumPages == 2      \* distinct page numbers carried by the frames

\* ------------------------------------------------------------ state
VARIABLES
    is_txn,        \* Injector.is_txn
    buffer,        \* Injector.buffer : VecDeque<Frame>, front = index 1
    capacity,      \* Injector.capacity
    eng_txn,       \* the connection has an open engine-level transaction
    wal,           \* frames written to the WAL file, in write order
    status,        \* "running" | "panicked" | "crashed"
    log,           \* the frame stream the caller delivers
    pos,           \* index in log of the next frame the caller injects
    last,          \* history: the latest inject_frame call and what it returned
    somes,         \* history: the frame numbers returned as Some(_), in order
    faults,        \* history: number of engine faults so far
    committed_wal, \* history: readable WAL content when the last outer COMMIT returned
    peak,          \* history: largest buffer length reached right after a push
    n_begin,       \* history: number of begin_txn calls so far
    pc,            \* statement-level runs: where the current call stands
    buf_lock,      \* statement-level runs: holder of the buffer mutex
    conn_lock,     \* statement-level runs: holder of the connection mutex
    call,          \* statement-level runs: locals of the current flush
    clears,        \* history: number of clear_buffer calls so far
    last_clear,    \* history: where the caller was at the latest clear_buffer
                   \*          call (at) and where it resumed the stream (to)
    n_closing,     \* history: number of closing frames passed to inject_frame
    fatal_seen     \* history: some inject_frame call returned FatalInjectError

vars == <<is_txn, buffer, capacity, eng_txn, wal, status, log, pos, last,
          somes, faults, committed_wal, clears, last_clear, n_closing,
          fatal_seen, peak, n_begin, pc, buf_lock, conn_lock, call>>

\* The variables of the statement-level runs, and the history variables of the
\* call-level runs.
lockvars == <<pc, buf_lock, conn_lock, call>>
histvars == <<last, somes, committed_wal, last_clear, n_closing, fatal_seen,
              peak, n_begin>>

\* ------------------------------------------------------------ frames
Directions == {"asc", "desc"}

\* size_after of a closing frame: the database size in pages
ClosingSize == NumPages

MkFrame(n, dir, closes, i) ==
    [frame_no   |-> IF dir = "asc" THEN i ELSE n + 1 - i,
     size_after |-> IF closes[i] THEN ClosingSize ELSE 0,
     page_no    |-> ((i - 1) % NumPages) + 1]

\* Frame streams: ascending frame numbers (log replay) or descending ones
\* (snapshot), any placement of the closing frames.
Logs ==
    UNION { { [i \in 1..n |-> MkFrame(n, dir, closes, i)] :
                dir \in Directions, closes \in [1..n -> BOOLEAN] } :
            n \in 1..MaxLog }

Max(a, b) == IF a >= b THEN a ELSE b

Closes(f) == f.size_after # 0

\* ------------------------------------------------------------ engine
\* What a separate reader connection (and WAL recovery after a crash) sees:
\* the frames up to and including the last commit frame of the WAL.
RECURSIVE Visible(_)
Visible(w) ==
    IF w = <<>> THEN <<>>
    ELSE IF Closes(w[Len(w)]) THEN w
    ELSE Visible(SubSeq(w, 1, Len(w) - 1))

\* Database content a reader sees: for every page the frame_no of the last
\* visible frame that wrote it (0: page never written).
Content(w) ==
    [p \in 1..NumPages |->
        LET idx == { i \in 1..Len(Visible(w)) : Visible(w)[i].page_no = p }
        IN IF idx = {} THEN 0
           ELSE Visible(w)[CHOOSE i \in idx : \A j \in idx : j <= i].frame_no]

\* A frame the engine itself produces for the Injector's private table
\* libsql_temp_injection (its CREATE or its INSERT); never a frame of a stream.
MarkerFrame == [frame_no |-> 0, size_after |-> 0, page_no |-> 0]

\* The injector hook (xFrames).  It sets aside the engine's own dirty pages
\* (the marker table's), pops the buffered frames and writes them to the WAL
\* in FIFO order; k is the number of frames written before a write
\* error (k = Len(buf): no error).  It reports exactly one sentinel.
InjectorHook(buf, w, k) ==
    IF k < Len(buf)
    THEN [sentinel |-> "LIBSQL_INJECT_FATAL",
          buffer   |-> SubSeq(buf, k + 1, Len(buf)),
          wal      |-> w \o SubSeq(buf, 1, k)]
    ELSE [sentinel |-> IF Closes(buf[Len(buf)]) THEN "LIBSQL_INJECT_OK"
                                                ELSE "LIBSQL_INJECT_OK_TXN",
          buffer   |-> <<>>,
          wal      |-> w \o buf]

\* ------------------------------------------------------------ environment
\* What the engine does during one inject_frame call.  "ok": every engine call
\* behaves; the other kinds make one engine call of the handler fail (or the
\* process die) at the named place.  k is used by "write_err" only: the number
\* of frames the hook wrote before the write error.
EnvKinds ==
    {"ok", "commit_201", "commit_notxn", "commit_err", "pragma_err",
     "crash_before_commit",
     "prepare_err", "begin_err", "create_err", "not_called", "other_code",
     "non_sqlite"}

Scenarios ==
    { [kind |-> x, k |-> 0] : x \in EnvKinds } \cup
    { [kind |-> "write_err", k |-> j] : j \in 0..(MaxLog - 1) }

IsFault(e) == e.kind \notin {"ok", "commit_201", "crash_before_commit"}

\* ------------------------------------------------------------ results
None == [kind |-> "None", val |-> 0]
Some(n) == [kind |-> "Some", val |-> n]
Err(x) == [kind |-> x, val |-> 0]
FatalInjectError == Err("FatalInjectError")
SqliteError == Err("SqliteError")
Panic == Err("panic")
Crashed == Err("crash")

IsErr(r) == r.kind \notin {"None", "Some"}

\* ------------------------------------------------------------ Injector
\* The fields of the Injector and of the engine it drives, plus what the
\* current call has produced so far: res, its result; sentinel, what the
\* forced write returned ("none": not attempted); commit, what the outer
\* COMMIT returned ("none": not issued); hit, the environment's deviation
\* from "ok" took effect in this call; flushed, flush was entered; begin, the
\* engine state BEGIN IMMEDIATE met ("none": begin_txn not called).
Self ==
    [is_txn |-> is_txn, buffer |-> buffer, eng_txn |-> eng_txn, wal |-> wal,
     committed_wal |-> committed_wal, status |-> status,
     res |-> None, sentinel |-> "none", commit |-> "none", hit |-> FALSE,
     flushed |-> FALSE, begin |-> "none"]

\* Injector::new
New(cap) ==
    [is_txn |-> FALSE, buffer |-> <<>>, capacity |-> cap]

\* Process death followed by a restart on the same database file: the
\* Injector is gone, WAL recovery keeps the frames up to the last commit frame.
Recover(s) ==
    [s EXCEPT !.is_txn = FALSE, !.buffer = <<>>, !.eng_txn = FALSE,
              !.wal = Visible(s.wal), !.status = "crashed", !.res = Crashed]

\* Mutant of begin_txn: is_txn is set as soon as the transaction is begun.
begin_txn_sets_flag(s, e) ==
    LET b == [s EXCEPT !.begin = IF s.eng_txn THEN "open" ELSE "idle"]
    IN IF s.eng_txn \/ e.kind = "begin_err"
       THEN [b EXCEPT !.res = SqliteError, !.hit = (e.kind = "begin_err")]
       ELSE IF e.kind = "create_err"
       THEN [b EXCEPT !.eng_txn = TRUE, !.is_txn = TRUE, !.res = SqliteError,
                      !.hit = TRUE]
       ELSE [b EXCEPT !.eng_txn = TRUE, !.is_txn = TRUE]

\* Injector::begin_txn.  BEGIN IMMEDIATE fails inside an open transaction.
begin_txn(s, e) ==
    LET b == [s EXCEPT !.begin = IF s.eng_txn THEN "open" ELSE "idle"]
    IN IF s.eng_txn \/ e.kind = "begin_err"
       THEN [b EXCEPT !.res = SqliteError, !.hit = (e.kind = "begin_err")]
       ELSE IF e.kind = "create_err"
       THEN [b EXCEPT !.eng_txn = TRUE, !.res = SqliteError, !.hit = TRUE]
       ELSE [b EXCEPT !.eng_txn = TRUE]

\* The commit frame number flush computes before the forced write.
last_frame_no(buf) == Max(buf[1].frame_no, buf[Len(buf)].frame_no)

\* SQLite result codes the outer COMMIT can return.
SQLITE_OK == 0
\* "cannot commit - no transaction is active"
SQLITE_ERROR == 1
SQLITE_BUSY == 5
\* The one extended error code of a failed COMMIT that flush tolerates.
TOLERATED_COMMIT_ERROR == 201

\* The extended result code of the outer COMMIT in the environment e.
commit_code(e) ==
    IF e.kind = "commit_201" THEN TOLERATED_COMMIT_ERROR
    ELSE IF e.kind = "commit_notxn" THEN SQLITE_ERROR
    ELSE IF e.kind = "commit_err" THEN SQLITE_BUSY
    ELSE SQLITE_OK

commit_name(code) ==
    IF code = SQLITE_OK THEN "Ok"
    ELSE IF code = TOLERATED_COMMIT_ERROR THEN "Err201"
    ELSE IF code = SQLITE_ERROR THEN "ErrNoTxn"
    ELSE "ErrOther"

\* Mutant of flush_committed: every failure of the outer COMMIT is tolerated.
flush_committed_any_error(s1, e, n) ==
    LET code == commit_code(e)
    IN IF e.kind = "pragma_err"
       THEN [s1 EXCEPT !.res = SqliteError, !.hit = TRUE]
       ELSE IF e.kind = "crash_before_commit"
       THEN Recover([s1 EXCEPT !.hit = TRUE])
       ELSE IF ~(TRUE)
       THEN [s1 EXCEPT !.commit = commit_name(code), !.res = FatalInjectError,
                       !.eng_txn = (@ /\ code # SQLITE_ERROR), !.hit = TRUE]
       ELSE [s1 EXCEPT !.commit = commit_name(code),
                       !.hit = (code # SQLITE_OK),
                       !.eng_txn = FALSE,
                       !.committed_wal = Visible(s1.wal),
                       !.is_txn = FALSE,
                       !.res = IF s1.buffer = <<>> THEN Some(n) ELSE Panic,
                       !.status = IF s1.buffer = <<>> THEN s1.status ELSE "panicked"]

\* Mutant of flush_committed: the result of the commit is dropped.
flush_committed_none(s1, e, n) ==
    LET code == commit_code(e)
    IN IF e.kind = "pragma_err"
       THEN [s1 EXCEPT !.res = SqliteError, !.hit = TRUE]
       ELSE IF e.kind = "crash_before_commit"
       THEN Recover([s1 EXCEPT !.hit = TRUE])
       ELSE IF ~(code = SQLITE_OK \/ code = TOLERATED_COMMIT_ERROR)
       THEN [s1 EXCEPT !.commit = commit_name(code), !.res = FatalInjectError,
                       !.eng_txn = (@ /\ code # SQLITE_ERROR), !.hit = TRUE]
       ELSE [s1 EXCEPT !.commit = commit_name(code),
                       !.hit = (code # SQLITE_OK),
                       !.eng_txn = FALSE,
                       !.committed_wal = Visible(s1.wal),
                       !.is_txn = FALSE,
                       !.res = IF s1.buffer = <<>> THEN None ELSE Panic,
                       !.status = IF s1.buffer = <<>> THEN s1.status ELSE "panicked"]

\* flush, the Committed branch (LIBSQL_INJECT_OK): schema reset, outer COMMIT,
\* is_txn cleared, the buffer asserted empty, Some(last_frame_no).  n is the
\* frame number computed before the forced write.
flush_committed(s1, e, n) ==
    LET code == commit_code(e)
    IN IF e.kind = "pragma_err"
       THEN [s1 EXCEPT !.res = SqliteError, !.hit = TRUE]
       ELSE IF e.kind = "crash_before_commit"
       THEN Recover([s1 EXCEPT !.hit = TRUE])
       ELSE IF ~(code = SQLITE_OK \/ code = TOLERATED_COMMIT_ERROR)
       THEN [s1 EXCEPT !.commit = commit_name(code), !.res = FatalInjectError,
                       !.eng_txn = (@ /\ code # SQLITE_ERROR), !.hit = TRUE]
       ELSE [s1 EXCEPT !.commit = commit_name(code),
                       !.hit = (code # SQLITE_OK),
                       !.eng_txn = FALSE,
                       !.committed_wal = Visible(s1.wal),
                       !.is_txn = FALSE,
                       !.res = IF s1.buffer = <<>> THEN Some(n) ELSE Panic,
                       !.status = IF s1.buffer = <<>> THEN s1.status ELSE "panicked"]

\* Mutant of flush_open: is_txn is not set.
flush_open_forgets(s1) ==
    [s1 EXCEPT !.res = IF s1.buffer = <<>> THEN None ELSE Panic,
               !.status = IF s1.buffer = <<>> THEN s1.status ELSE "panicked"]

\* Mutant of flush_open: the emptiness assertion looks at the buffer as it
\* was before the forced write, which flush never reaches with an empty one.
flush_open_stale_assert(s1) ==
    [s1 EXCEPT !.is_txn = TRUE, !.res = Panic, !.status = "panicked"]

\* Mutant of flush_open: the outer COMMIT is issued on LIBSQL_INJECT_OK_TXN too.
flush_open_commits(s1) ==
    [s1 EXCEPT !.commit = "Ok",
               !.eng_txn = FALSE,
               !.committed_wal = Visible(s1.wal),
               !.is_txn = FALSE,
               !.res = IF s1.buffer = <<>> THEN None ELSE Panic,
               !.status = IF s1.buffer = <<>> THEN s1.status ELSE "panicked"]

\* flush, the Open branch (LIBSQL_INJECT_OK_TXN)
flush_open(s1) ==
    [s1 EXCEPT !.is_txn = TRUE,
               !.res = IF s1.buffer = <<>> THEN None ELSE Panic,
               !.status = IF s1.buffer = <<>> THEN s1.status ELSE "panicked"]

\* Mutant of flush_failed: the error of the forced write is swallowed.
flush_failed_silent(s1) ==
    [s1 EXCEPT !.res = None]

\* flush, every other error of the forced write: LIBSQL_INJECT_FATAL, an
\* unrecognized SQLite code, a non-SQLite error.
flush_failed(s1) ==
    [s1 EXCEPT !.res = FatalInjectError]

\* Mutant of flush_not_called: the success of the forced write is taken for
\* an empty flush.
flush_not_called_ok(s) ==
    [s EXCEPT !.sentinel = "not_called", !.wal = @ \o <<MarkerFrame>>,
              !.res = None, !.hit = TRUE]

\* Mutant of flush_not_called: the success of the forced write is reported as
\* an error.
flush_not_called_err(s) ==
    [s EXCEPT !.sentinel = "not_called", !.wal = @ \o <<MarkerFrame>>,
              !.res = FatalInjectError, !.hit = TRUE]

\* flush, the forced write and the cache flush succeed: the hook was not
\* invoked, the engine wrote its own dirty page (the marker table's) to the
\* WAL, and flush panics.
flush_not_called(s) ==
    [s EXCEPT !.sentinel = "not_called", !.wal = @ \o <<MarkerFrame>>,
              !.res = Panic, !.status = "panicked", !.hit = TRUE]

\* Injector::flush
flush(s, e) ==
    LET f == [s EXCEPT !.flushed = TRUE]
    IN IF f.buffer = <<>>
       THEN [f EXCEPT !.res = None]
       ELSE IF e.kind = "prepare_err"
       THEN [f EXCEPT !.res = SqliteError, !.hit = TRUE]
       ELSE IF e.kind = "not_called"
       THEN flush_not_called(f)
       ELSE IF e.kind \in {"other_code", "non_sqlite"}
       THEN flush_failed([f EXCEPT !.sentinel = e.kind, !.hit = TRUE])
       ELSE
         LET h  == InjectorHook(f.buffer, f.wal,
                                IF e.kind = "write_err" THEN e.k ELSE Len(f.buffer))
             s1 == [f EXCEPT !.buffer = h.buffer, !.wal = h.wal,
                             !.sentinel = h.sentinel,
                             !.hit = (h.sentinel = "LIBSQL_INJECT_FATAL")]
         IN IF h.sentinel = "LIBSQL_INJECT_OK"
            THEN flush_committed(s1, e, last_frame_no(f.buffer))
            ELSE IF h.sentinel = "LIBSQL_INJECT_OK_TXN"
            THEN flush_open(s1)
            ELSE flush_failed(s1)

\* Mutant of inject_frame: push_front instead of push_back.
inject_frame_push_front(s, cap, frame, e) ==
    LET frame_close_txn == frame.size_after # 0
        s0 == [s EXCEPT !.buffer = <<frame>> \o @]
    IN IF frame_close_txn \/ Len(s0.buffer) >= cap
       THEN IF ~s0.is_txn
            THEN LET b == begin_txn(s0, e)
                 IN IF IsErr(b.res) THEN b ELSE flush(b, e)
            ELSE flush(s0, e)
       ELSE [s0 EXCEPT !.res = None]

\* Mutant of inject_frame: begin_txn is called before every flush.
inject_frame_always_begin(s, cap, frame, e) ==
    LET frame_close_txn == frame.size_after # 0
        s0 == [s EXCEPT !.buffer = Append(@, frame)]
    IN IF frame_close_txn \/ Len(s0.buffer) >= cap
       THEN LET b == begin_txn(s0, e)
            IN IF IsErr(b.res) THEN b ELSE flush(b, e)
       ELSE [s0 EXCEPT !.res = None]

\* Mutant of inject_frame: the frame is pushed after the flush.
inject_frame_late_push(s, cap, frame, e) ==
    LET frame_close_txn == frame.size_after # 0
        push(r) == [r EXCEPT !.buffer = Append(@, frame)]
    IN IF frame_close_txn \/ Len(s.buffer) + 1 >= cap
       THEN IF ~s.is_txn
            THEN LET b == begin_txn(s, e)
                 IN IF IsErr(b.res) THEN push(b) ELSE push(flush(b, e))
            ELSE push(flush(s, e))
       ELSE [push(s) EXCEPT !.res = None]

\* Mutant of inject_frame: the result of flush is dropped.
inject_frame_drops_result(s, cap, frame, e) ==
    LET frame_close_txn == frame.size_after # 0
        s0 == [s EXCEPT !.buffer = Append(@, frame)]
        ok(r) == IF IsErr(r.res) THEN r ELSE [r EXCEPT !.res = None]
    IN IF frame_close_txn \/ Len(s0.buffer) >= cap
       THEN IF ~s0.is_txn
            THEN LET b == begin_txn(s0, e)
                 IN IF IsErr(b.res) THEN b ELSE ok(flush(b, e))
            ELSE ok(flush(s0, e))
       ELSE [s0 EXCEPT !.res = None]

\* Mutant of inject_frame: the flush waits until the buffer is longer than
\* capacity.
inject_frame_past_capacity(s, cap, frame, e) ==
    LET frame_close_txn == frame.size_after # 0
        s0 == [s EXCEPT !.buffer = Append(@, frame)]
    IN IF frame_close_txn \/ Len(s0.buffer) > cap
       THEN IF ~s0.is_txn
            THEN LET b == begin_txn(s0, e)
                 IN IF IsErr(b.res) THEN b ELSE flush(b, e)
            ELSE flush(s0, e)
       ELSE [s0 EXCEPT !.res = None]

\* Mutant of inject_frame: only a full buffer triggers the flush.
inject_frame_capacity_only(s, cap, frame, e) ==
    LET s0 == [s EXCEPT !.buffer = Append(@, frame)]
    IN IF Len(s0.buffer) >= cap
       THEN IF ~s0.is_txn
            THEN LET b == begin_txn(s0, e)
                 IN IF IsErr(b.res) THEN b ELSE flush(b, e)
            ELSE flush(s0, e)
       ELSE [s0 EXCEPT !.res = None]

\* Mutant of inject_frame: a transaction is begun before the flush decision.
inject_frame_begin_first(s, cap, frame, e) ==
    LET frame_close_txn == frame.size_after # 0
        s0 == [s EXCEPT !.buffer = Append(@, frame)]
        b  == IF ~s0.is_txn THEN begin_txn(s0, e) ELSE s0
    IN IF IsErr(b.res) THEN b
       ELSE IF frame_close_txn \/ Len(b.buffer) >= cap
       THEN flush(b, e)
       ELSE [b EXCEPT !.res = None]

\* Injector::inject_frame
inject_frame(s, cap, frame, e) ==
    LET frame_close_txn == frame.size_after # 0
        s0 == [s EXCEPT !.buffer = Append(@, frame)]
    IN IF frame_close_txn \/ Len(s0.buffer) >= cap
       THEN IF ~s0.is_txn
            THEN LET b == begin_txn(s0, e)
                 IN IF IsErr(b.res) THEN b ELSE flush(b, e)
            ELSE flush(s0, e)
       ELSE [s0 EXCEPT !.res = None]

\* Mutant of clear_buffer: the buffer is left as it is.
clear_buffer_noop(s) == s

\* Injector::clear_buffer
clear_buffer(s) == [s EXCEPT !.buffer = <<>>]

\* ------------------------------------------------------------ caller
\* Index of the first frame of the transaction that log[p] belongs to.
TxnStart(p) ==
    CHOOSE j \in 1..p :
        /\ (j = 1 \/ Closes(log[j - 1]))
        /\ \A i \in j..(p - 1) : ~Closes(log[i])

\* ------------------------------------------------------------ actions
NoFlush == [n |-> 0, sentinel |-> "none"]

NoCall ==
    [frame |-> [frame_no |-> 0, size_after |-> 0, page_no |-> 0], res |-> None,
     sentinel |-> "none", commit |-> "none", was_txn |-> FALSE,
     buf_before |-> <<>>, wal_before |-> <<>>, failed_before |-> FALSE,
     eng_before |-> FALSE, flushed |-> FALSE, begin |-> "none"]

Init ==
    /\ log \in Logs
    /\ \E cap \in 1..MaxCap :
         /\ is_txn = New(cap).is_txn
         /\ buffer = New(cap).buffer
         /\ capacity = New(cap).capacity
    /\ eng_txn = FALSE
    /\ wal = <<>>
    /\ status = "running"
    /\ pos = 1
    /\ last = NoCall
    /\ somes = <<>>
    /\ faults = 0
    /\ committed_wal = <<>>
    /\ clears = 0
    /\ last_clear = [at |-> 0, to |-> 0]
    /\ n_closing = 0
    /\ fatal_seen = FALSE
    /\ peak = 0
    /\ n_begin = 0
    /\ pc = "idle"
    /\ buf_lock = "free"
    /\ conn_lock = "free"
    /\ call = NoFlush

Install(r) ==
    /\ is_txn' = r.is_txn
    /\ buffer' = r.buffer
    /\ eng_txn' = r.eng_txn
    /\ wal' = r.wal
    /\ status' = r.status
    /\ committed_wal' = r.committed_wal

\* The caller hands the next frame of the stream to inject_frame.
InjectFrame ==
    /\ status = "running"
    /\ pos <= Len(log)
    /\ \E e \in Scenarios :
         LET r == inject_frame(Self, capacity, log[pos], e)
         IN /\ (e.kind = "write_err") => (e.k <= Len(buffer))
            /\ (e.kind # "ok") => r.hit
            /\ IsFault(e) => (faults < MaxFaults)
            /\ Install(r)
            /\ last' = [frame |-> log[pos], res |-> r.res, sentinel |-> r.sentinel,
                        commit |-> r.commit, was_txn |-> is_txn,
                        buf_before |-> buffer, wal_before |-> wal,
                        failed_before |-> fatal_seen, eng_before |-> eng_txn,
                        flushed |-> r.flushed, begin |-> r.begin]
            /\ somes' = IF r.res.kind = "Some" THEN Append(somes, r.res.val) ELSE somes
            /\ faults' = IF IsFault(e) THEN faults + 1 ELSE faults
            /\ fatal_seen' = (fatal_seen \/ r.res = FatalInjectError)
            /\ n_begin' = IF r.begin # "none" THEN n_begin + 1 ELSE n_begin
    /\ n_closing' = IF Closes(log[pos]) THEN n_closing + 1 ELSE n_closing
    /\ peak' = Max(peak, Len(buffer) + 1)
    /\ pos' = pos + 1
    /\ UNCHANGED <<capacity, log, clears, last_clear, lockvars>>

\* The caller gives up on the frames it delivered and either refetches the
\* current transaction from its first frame or carries on with the stream.
ClearBuffer ==
    /\ status = "running"
    /\ clears < MaxClears
    /\ Install(clear_buffer(Self))
    /\ clears' = clears + 1
    /\ \E p \in {pos, IF pos <= Len(log) THEN TxnStart(pos) ELSE pos} :
         /\ pos' = p
         /\ last_clear' = [at |-> pos, to |-> p]
    /\ UNCHANGED <<capacity, log, last, somes, faults, n_closing, fatal_seen,
                   peak, n_begin, lockvars>>

\* The process dies between two calls and the database is reopened.
Crash ==
    /\ status = "running"
    /\ Install(Recover(Self))
    /\ UNCHANGED <<capacity, log, pos, last, somes, faults, clears, last_clear,
                   n_closing, fatal_seen, peak, n_begin, lockvars>>

Next == InjectFrame \/ ClearBuffer \/ Crash

Spec == Init /\ [][Next]_vars

\* ------------------------------------------------------------ statement-level runs
\* The same handlers, one action per statement that takes or gives back a
\* mutex.  Both mutexes are non-reentrant: a lock() on a held mutex blocks,
\* and as &mut self admits a single caller nobody is left to release it.
\* A guard created in a statement (self.buffer.lock().push_back(..)) is
\* released at the end of that statement; a guard bound with let is released
\* by drop() or when the function returns.

\* Mutant of drop_lock: the guard on the buffer is kept until flush returns.
drop_lock_missing(holder) == holder

\* drop(lock)
drop_lock(holder) == "free"

\* The call returns to the caller; the guards still alive are released.
Return ==
    /\ pc' = "idle"
    /\ buf_lock' = "free"
    /\ conn_lock' = "free"
    /\ call' = NoFlush
    /\ pos' = pos + 1

\* An engine fault is admitted.
Fault ==
    /\ faults < MaxFaults
    /\ faults' = faults + 1

L67_inject_frame ==
    /\ pc = "idle" /\ status = "running" /\ pos <= Len(log)
    /\ pc' = "push"
    /\ UNCHANGED <<is_txn, buffer, capacity, eng_txn, wal, status, log, pos,
                   faults, clears, histvars, buf_lock, conn_lock, call>>

L69_lock ==
    /\ pc = "push" /\ buf_lock = "free"
    /\ buf_lock' = "injector" /\ pc' = "push_back"
    /\ UNCHANGED <<is_txn, buffer, capacity, eng_txn, wal, status, log, pos,
                   faults, clears, histvars, conn_lock, call>>

L69_push_back ==
    /\ pc = "push_back"
    /\ buffer' = Append(buffer, log[pos])
    /\ buf_lock' = "free" /\ pc' = "condition"
    /\ UNCHANGED <<is_txn, capacity, eng_txn, wal, status, log, pos,
                   faults, clears, histvars, conn_lock, call>>

\* frame_close_txn || ...: the length is not read for a closing frame.
L70_close ==
    /\ pc = "condition" /\ Closes(log[pos])
    /\ pc' = IF ~is_txn THEN "begin_txn" ELSE "flush"
    /\ UNCHANGED <<is_txn, buffer, capacity, eng_txn, wal, status, log, pos,
                   faults, clears, histvars, buf_lock, conn_lock, call>>

L70_lock ==
    /\ pc = "condition" /\ ~Closes(log[pos]) /\ buf_lock = "free"
    /\ buf_lock' = "injector" /\ pc' = "len"
    /\ UNCHANGED <<is_txn, buffer, capacity, eng_txn, wal, status, log, pos,
                   faults, clears, histvars, conn_lock, call>>

L70_len ==
    /\ pc = "len"
    /\ IF Len(buffer) >= capacity
       THEN /\ pc' = IF ~is_txn THEN "begin_txn" ELSE "flush"
            /\ buf_lock' = "free"
            /\ UNCHANGED <<pos, conn_lock, call>>
       ELSE Return
    /\ UNCHANGED <<is_txn, buffer, capacity, eng_txn, wal, status, log,
                   faults, clears, histvars>>

L139_lock ==
    /\ pc = "begin_txn" /\ conn_lock = "free"
    /\ conn_lock' = "injector" /\ pc' = "begin"
    /\ UNCHANGED <<is_txn, buffer, capacity, eng_txn, wal, status, log, pos,
                   faults, clears, histvars, buf_lock, call>>

\* BEGIN IMMEDIATE and CREATE TABLE IF NOT EXISTS, under the connection lock.
L140_begin ==
    /\ pc = "begin"
    /\ \E ok \in BOOLEAN :
         IF ok /\ ~eng_txn
         THEN /\ eng_txn' = TRUE
              /\ conn_lock' = "free" /\ pc' = "flush"
              /\ UNCHANGED <<pos, faults, buf_lock, call>>
         ELSE /\ IF eng_txn THEN UNCHANGED faults ELSE Fault
              /\ Return
              /\ UNCHANGED eng_txn
    /\ UNCHANGED <<is_txn, buffer, capacity, wal, status, log, clears, histvars>>

L84_lock ==
    /\ pc = "flush" /\ buf_lock = "free"
    /\ buf_lock' = "injector" /\ pc' = "front_back"
    /\ UNCHANGED <<is_txn, buffer, capacity, eng_txn, wal, status, log, pos,
                   faults, clears, histvars, conn_lock, call>>

L88_front_back ==
    /\ pc = "front_back"
    /\ IF buffer = <<>>
       THEN Return
       ELSE /\ call' = [call EXCEPT !.n = last_frame_no(buffer)]
            /\ pc' = "drop"
            /\ UNCHANGED <<pos, buf_lock, conn_lock>>
    /\ UNCHANGED <<is_txn, buffer, capacity, eng_txn, wal, status, log,
                   faults, clears, histvars>>

L96_drop ==
    /\ pc = "drop"
    /\ buf_lock' = drop_lock(buf_lock)
    /\ pc' = "connection"
    /\ UNCHANGED <<is_txn, buffer, capacity, eng_txn, wal, status, log, pos,
                   faults, clears, histvars, conn_lock, call>>

L98_lock ==
    /\ pc = "connection" /\ conn_lock = "free"
    /\ conn_lock' = "injector" /\ pc' = "execute"
    /\ UNCHANGED <<is_txn, buffer, capacity, eng_txn, wal, status, log, pos,
                   faults, clears, histvars, buf_lock, call>>

\* prepare_cached, execute and cache_flush: the engine calls the hook, or
\* fails before it does, or succeeds without calling it (panic).
L107_execute ==
    /\ pc = "execute"
    /\ \E o \in {"xFrames", "error", "not_called"} :
         IF o = "xFrames"
         THEN /\ pc' = "xFrames"
              /\ UNCHANGED <<wal, status, pos, faults, buf_lock, conn_lock, call>>
         ELSE IF o = "error"
         THEN /\ Fault /\ Return
              /\ UNCHANGED <<wal, status>>
         ELSE /\ Fault /\ Return
              /\ wal' = wal \o <<MarkerFrame>>
              /\ status' = "panicked"
    /\ UNCHANGED <<is_txn, buffer, capacity, eng_txn, log, clears, histvars>>

\* The hook takes the buffer lock inside the engine call.
Hook_lock ==
    /\ pc = "xFrames" /\ buf_lock = "free"
    /\ buf_lock' = "hook" /\ pc' = "drain"
    /\ UNCHANGED <<is_txn, buffer, capacity, eng_txn, wal, status, log, pos,
                   faults, clears, histvars, conn_lock, call>>

Hook_drain ==
    /\ pc = "drain"
    /\ \E k \in 0..Len(buffer) :
         LET h == InjectorHook(buffer, wal, k)
         IN /\ IF k < Len(buffer) THEN Fault ELSE UNCHANGED faults
            /\ buffer' = h.buffer
            /\ wal' = h.wal
            /\ call' = [call EXCEPT !.sentinel = h.sentinel]
    /\ buf_lock' = "free" /\ pc' = "sentinel"
    /\ UNCHANGED <<is_txn, capacity, eng_txn, status, log, pos, clears,
                   histvars, conn_lock>>

\* LIBSQL_INJECT_OK: writable_schema reset and the outer COMMIT.
L111_committed ==
    /\ pc = "sentinel" /\ call.sentinel = "LIBSQL_INJECT_OK"
    /\ \E code \in {SQLITE_OK, TOLERATED_COMMIT_ERROR, SQLITE_ERROR, SQLITE_BUSY} :
         IF code = SQLITE_OK \/ code = TOLERATED_COMMIT_ERROR
         THEN /\ is_txn' = FALSE /\ eng_txn' = FALSE
              /\ pc' = "assert"
              /\ UNCHANGED <<pos, faults, buf_lock, conn_lock, call>>
         ELSE /\ Fault /\ Return
              /\ eng_txn' = (eng_txn /\ code # SQLITE_ERROR)
              /\ UNCHANGED is_txn
    /\ UNCHANGED <<buffer, capacity, wal, status, log, clears, histvars>>

\* LIBSQL_INJECT_OK_TXN
L124_open ==
    /\ pc = "sentinel" /\ call.sentinel = "LIBSQL_INJECT_OK_TXN"
    /\ is_txn' = TRUE
    /\ pc' = "assert"
    /\ UNCHANGED <<buffer, capacity, eng_txn, wal, status, log, pos, faults,
                   clears, histvars, buf_lock, conn_lock, call>>

\* LIBSQL_INJECT_FATAL
L128_fatal ==
    /\ pc = "sentinel" /\ call.sentinel = "LIBSQL_INJECT_FATAL"
    /\ Return
    /\ UNCHANGED <<is_txn, buffer, capacity, eng_txn, wal, status, log, faults,
                   clears, histvars>>

\* assert!(self.buffer.lock().is_empty()), the connection guard still alive.
L122_lock ==
    /\ pc = "assert" /\ buf_lock = "free"
    /\ buf_lock' = "injector" /\ pc' = "is_empty"
    /\ UNCHANGED <<is_txn, buffer, capacity, eng_txn, wal, status, log, pos,
                   faults, clears, histvars, conn_lock, call>>

L122_is_empty ==
    /\ pc = "is_empty"
    /\ status' = IF buffer = <<>> THEN status ELSE "panicked"
    /\ Return
    /\ UNCHANGED <<is_txn, buffer, capacity, eng_txn, wal, log, faults,
                   clears, histvars>>

L151_lock ==
    /\ pc = "idle" /\ status = "running" /\ clears < MaxClears
    /\ buf_lock = "free"
    /\ buf_lock' = "injector" /\ pc' = "clear"
    /\ UNCHANGED <<is_txn, buffer, capacity, eng_txn, wal, status, log, pos,
                   faults, clears, histvars, conn_lock, call>>

L151_clear ==
    /\ pc = "clear"
    /\ buffer' = <<>>
    /\ clears' = clears + 1
    /\ buf_lock' = "free" /\ pc' = "idle"
    /\ UNCHANGED <<is_txn, capacity, eng_txn, wal, status, log, pos,
                   faults, histvars, conn_lock, call>>

LockNext ==
    \/ L67_inject_frame \/ L69_lock \/ L69_push_back
    \/ L70_close \/ L70_lock \/ L70_len
    \/ L139_lock \/ L140_begin
    \/ L84_lock \/ L88_front_back \/ L96_drop \/ L98_lock \/ L107_execute
    \/ Hook_lock \/ Hook_drain
    \/ L111_committed \/ L124_open \/ L128_fatal
    \/ L122_lock \/ L122_is_empty
    \/ L151_lock \/ L151_clear

LockSpec == Init /\ [][LockNext]_vars

\* ------------------------------------------------------------ reference runs
\* A fresh Injector on an empty database.
Fresh ==
    [is_txn |-> FALSE, buffer |-> <<>>, eng_txn |-> FALSE, wal |-> <<>>,
     committed_wal |-> <<>>, status |-> "running",
     res |-> None, sentinel |-> "none", commit |-> "none", hit |-> FALSE,
     flushed |-> FALSE, begin |-> "none"]

\* The loop of the tests: inject every frame of the stream in order, no
\* engine fault.  The result carries the last call's result.
RECURSIVE InjectAll(_, _, _)
InjectAll(s, cap, frames) ==
    IF frames = <<>> THEN s
    ELSE InjectAll(
           inject_frame([s EXCEPT !.res = None, !.sentinel = "none", !.commit = "none",
                                  !.hit = FALSE, !.flushed = FALSE, !.begin = "none"],
                        cap, Head(frames), [kind |-> "ok", k |-> 0]),
           cap, Tail(frames))

\* ------------------------------------------------------------ vocabulary
Running == status = "running"
Called == last # NoCall
ErrorFree == faults = 0 /\ Running
NoClear == clears = 0
Injected == SubSeq(log, 1, pos - 1)
Done == pos = Len(log) + 1
\* No clear_buffer (and no crash) has come after the last inject_frame call.
JustCalled == Running /\ Called /\ ~(clears > 0 /\ last_clear.to = pos)
\* The flush condition of the last inject_frame call (mod.rs:70).
FlushDue == Closes(last.frame) \/ Len(last.buf_before) + 1 >= capacity
\* The last call left everything but the buffer as it was.
BufferOnly ==
    /\ last.sentinel = "none" /\ last.commit = "none"
    /\ JustCalled => /\ buffer = Append(last.buf_before, last.frame)
                     /\ is_txn = last.was_txn
                     /\ wal = last.wal_before

\* The stream is exactly one transaction: only its last frame closes.
SingleTxn(l) == \A i \in 1..Len(l) : Closes(l[i]) <=> (i = Len(l))
\* The stream is made of complete transactions.
CompleteTxns(l) == Closes(l[Len(l)])

MaxFrameNo(l) == CHOOSE m \in { l[i].frame_no : i \in 1..Len(l) } :
                     \A i \in 1..Len(l) : l[i].frame_no <= m

\* Number of frames of the stream injected up to and including the last
\* closing frame injected.
LastClosed ==
    IF \E j \in 1..(pos - 1) : Closes(log[j])
    THEN CHOOSE j \in 1..(pos - 1) :
           Closes(log[j]) /\ \A i \in (j + 1)..(pos - 1) : ~Closes(log[i])
    ELSE 0

\* ------------------------------------------------------------ claims

\* C1: for a stream that is exactly one transaction and a capacity in
\* [1, N], on a fresh Injector every inject_frame call returns None except
\* the one of the closing frame, which returns Some(m), m the largest
\* frame_no of the whole transaction.
C1_SingleTxnResult ==
    (ErrorFree /\ NoClear /\ Called /\ SingleTxn(log) /\ capacity <= Len(log))
    => IF Closes(last.frame)
       THEN last.res = Some(MaxFrameNo(log))
       ELSE last.res = None

\* C2: a separate reader sees none of the frames of a transaction of which
\* only a proper prefix was injected, buffered or already written by a flush
\* that reported Open: it sees exactly the transactions whose closing frame
\* was injected, and what it sees changes only in a call whose flush
\* reported Committed.
C2_AtomicVisibility ==
    (ErrorFree /\ NoClear)
    => /\ Visible(wal) = SubSeq(log, 1, LastClosed)
       /\ (Called /\ Visible(wal) # Visible(last.wal_before))
            => (Closes(last.frame) /\ last.sentinel = "LIBSQL_INJECT_OK")

C2_Witness ==
    /\ ErrorFree /\ NoClear /\ is_txn
    /\ Visible(wal) # <<>>
    /\ Len(wal) > Len(Visible(wal))

\* C3: the frames applied to the WAL and the committed content do not depend
\* on the capacity: a whole stream of complete transactions injected with
\* this capacity gives what it gives with every other capacity.
C3_CapacityIndependent ==
    (ErrorFree /\ NoClear /\ Done /\ CompleteTxns(log))
    => \A c2 \in 1..MaxCap :
         LET other == InjectAll(Fresh, c2, log)
         IN /\ other.wal = wal
            /\ Content(other.wal) = Content(wal)
            /\ Visible(other.wal) = Visible(wal)

C3_Witness ==
    /\ ErrorFree /\ NoClear /\ Done /\ CompleteTxns(log)
    /\ Len(log) >= 3 /\ capacity = 1 /\ ~SingleTxn(log)
    /\ Content(wal) # [p \in 1..NumPages |-> 0]

\* C4 as claimed: the outer COMMIT is issued only after every frame of the
\* transaction is in the WAL, and a crash anywhere between the first frame of
\* a transaction and that COMMIT leaves the database, at restart, as it was
\* before the transaction.
C4_Claim ==
    /\ (ErrorFree /\ NoClear /\ last.commit # "none")
         => (Closes(last.frame) /\ wal = Injected)
    /\ (faults = 0 /\ NoClear /\ status = "crashed")
         => wal = committed_wal

\* C4 amended: the outer COMMIT is issued only after every frame of the
\* transaction is in the WAL; a crash before the hook has written the closing
\* frame leaves the database as it was before the transaction, a crash after
\* that write and before the outer COMMIT leaves the whole transaction
\* applied; no crash leaves a part of it.
C4_CrashConsistency ==
    /\ (ErrorFree /\ NoClear /\ last.commit # "none")
         => (Closes(last.frame) /\ wal = Injected)
    /\ (faults = 0 /\ NoClear /\ status = "crashed")
         => IF last.res = Crashed
            THEN /\ last.sentinel = "LIBSQL_INJECT_OK"
                 /\ wal = committed_wal \o SubSeq(log, TxnStart(pos - 1), pos - 1)
            ELSE wal = committed_wal

C4_Witness ==
    /\ faults = 0 /\ NoClear /\ status = "crashed"
    /\ last.sentinel = "LIBSQL_INJECT_OK_TXN"
    /\ Len(last.wal_before) > Len(committed_wal)
    /\ committed_wal # <<>>
    /\ wal = committed_wal

\* C5: in an error-free run inject_frame returns Some(_) exactly when the
\* flush of that call reported Committed, which is exactly when its frame
\* closes a transaction; every other call returns None; so there are as many
\* Some results as closing frames injected.
C5_SomeIffCommitted ==
    (ErrorFree /\ Called)
    => /\ (last.res.kind = "Some") <=> (last.sentinel = "LIBSQL_INJECT_OK")
       /\ (last.sentinel = "LIBSQL_INJECT_OK") <=> Closes(last.frame)
       /\ (last.res.kind # "Some") => (last.res = None)
       /\ Len(somes) = n_closing

C5_Witness ==
    /\ ErrorFree /\ Called
    /\ Len(somes) >= 1
    /\ last.sentinel = "LIBSQL_INJECT_OK_TXN"
    /\ last.res = None

\* C6 as claimed: the frame number a Committed flush reports is
\* max(front.frame_no, back.frame_no) of the buffer when flush starts, and for
\* strictly ascending and strictly descending streams it is the largest
\* frame_no among the frames that flush commits.
C6_Claim ==
    (ErrorFree /\ NoClear /\ Called /\ last.res.kind = "Some")
    => /\ last.res.val = last_frame_no(Append(last.buf_before, last.frame))
       /\ last.res.val = MaxFrameNo(SubSeq(log, TxnStart(pos - 1), pos - 1))

\* C7: a forced write that fails with anything but the Committed or Open
\* sentinel makes inject_frame return FatalInjectError; no COMMIT is issued
\* and is_txn is left as it was.
C7_FatalSurfaces ==
    (Running /\ Called /\
       last.sentinel \in {"LIBSQL_INJECT_FATAL", "other_code", "non_sqlite"})
    => /\ last.res = FatalInjectError
       /\ last.commit = "none"
       /\ is_txn = last.was_txn

C7_Witness ==
    /\ Running /\ Called
    /\ last.sentinel = "LIBSQL_INJECT_FATAL"
    /\ last.res = FatalInjectError
    /\ wal # last.wal_before
    /\ buffer # <<>>

\* C8 as claimed: injecting a proper prefix of a transaction, clear_buffer,
\* then the whole transaction from its first frame ends in the state a single
\* injection of the transaction on a fresh Injector ends in, for every
\* capacity.
C8_Claim ==
    (ErrorFree /\ SingleTxn(log) /\ Done /\ clears = 1
       /\ last_clear.to = 1 /\ last_clear.at <= Len(log))
    => LET once == InjectAll(Fresh, capacity, log)
       IN /\ wal = once.wal
          /\ Content(wal) = Content(once.wal)
          /\ is_txn = once.is_txn
          /\ last.res = once.res

\* C8 amended: after a proper prefix P of a transaction T, clear_buffer and
\* all of T from its first frame, the committed content, is_txn and the
\* returned commit frame number are those of a single injection of T on a
\* fresh Injector, for every capacity; the frames applied to the WAL are
\* those of the single injection preceded by the frames of P that a flush
\* reporting Open had written before clear_buffer (none when P is shorter
\* than the capacity).
C8_ClearThenReinject ==
    (ErrorFree /\ SingleTxn(log) /\ Done /\ clears = 1
       /\ last_clear.to = 1 /\ last_clear.at <= Len(log))
    => LET once == InjectAll(Fresh, capacity, log)
           flushed == capacity * ((last_clear.at - 1) \div capacity)
       IN /\ wal = SubSeq(log, 1, flushed) \o once.wal
          /\ Content(wal) = Content(once.wal)
          /\ is_txn = once.is_txn
          /\ last.res = once.res

C8_Witness ==
    /\ ErrorFree /\ SingleTxn(log) /\ Done /\ clears = 1
    /\ last_clear.to = 1 /\ last_clear.at <= Len(log)
    /\ last_clear.at - 1 >= capacity
    /\ last.res.kind = "Some"
    /\ Len(wal) > Len(log)

\* C9: in an error-free run without clear_buffer the frames written to the
\* WAL are the frames passed to inject_frame up to the last flush, in the
\* same order, each once and unchanged; the frames passed since are the
\* buffer.
C9_FifoExactlyOnce ==
    (ErrorFree /\ NoClear)
    => /\ wal \o buffer = Injected
       /\ (Called /\ last.sentinel \in {"LIBSQL_INJECT_OK", "LIBSQL_INJECT_OK_TXN"})
            => (buffer = <<>> /\ wal = Injected)

C9_Witness ==
    /\ ErrorFree /\ NoClear
    /\ Len(wal) >= 2
    /\ \E i \in 1..Len(wal) : Closes(wal[i])
    /\ ~Closes(wal[Len(wal)])

\* C10 as claimed: once inject_frame has returned FatalInjectError, no later
\* inject_frame call writes frames to the WAL, changes is_txn or returns
\* Some(_).
C10_Claim ==
    (Running /\ Called /\ last.failed_before)
    => /\ wal = last.wal_before
       /\ is_txn = last.was_txn
       /\ last.res.kind # "Some"

\* C10 amended: the Injector keeps no failed state.  After FatalInjectError a
\* later inject_frame call is served like any other: it returns Some(_)
\* exactly when its flush reports Committed and the outer COMMIT succeeds or
\* is tolerated, having written its buffer to the WAL and cleared is_txn, and
\* it changes is_txn only when its flush reports Committed or Open.
C10_NoFailedState ==
    (Running /\ Called /\ last.failed_before)
    => /\ (last.res.kind = "Some")
            <=> (last.sentinel = "LIBSQL_INJECT_OK" /\ last.commit \in {"Ok", "Err201"})
       /\ (last.res.kind = "Some")
            => (~is_txn /\ wal = last.wal_before \o Append(last.buf_before, last.frame))
       /\ (is_txn # last.was_txn)
            => last.sentinel \in {"LIBSQL_INJECT_OK", "LIBSQL_INJECT_OK_TXN"}

C10_Witness ==
    /\ Running /\ Called /\ last.failed_before
    /\ last.res.kind = "Some"
    /\ last.was_txn /\ ~is_txn
    /\ wal # last.wal_before

\* C11: the marker table libsql_temp_injection is never persisted.  Every
\* frame a reader or WAL recovery can see is a frame of the injected stream
\* and none is a frame of the marker table's CREATE or INSERT; as long as the
\* process has not panicked the WAL holds no marker-table frame at all.
C11_MarkerNeverPersisted ==
    /\ \A i \in 1..Len(Visible(wal)) :
         /\ Visible(wal)[i] # MarkerFrame
         /\ \E j \in 1..(pos - 1) : log[j] = Visible(wal)[i]
    /\ (status # "panicked") => (\A i \in 1..Len(wal) : wal[i] # MarkerFrame)

\* begin_txn created the marker table, the flush wrote to it, and the
\* transaction was committed.
C11_Witness ==
    /\ Running /\ Called
    /\ last.begin = "idle"
    /\ last.sentinel = "LIBSQL_INJECT_OK"
    /\ last.commit = "Ok"
    /\ Visible(wal) = wal /\ Len(wal) >= 2

\* C12 as claimed: inject_frame performs a flush if and only if the pushed
\* frame closes a transaction or the buffer has reached capacity; otherwise
\* it returns Ok(None), begin_txn is not called, and its only effect is the
\* frame appended at the back of the buffer.
C12_Claim ==
    Called
    => /\ last.flushed <=> FlushDue
       /\ ~FlushDue
            => /\ last.res = None /\ last.begin = "none" /\ BufferOnly
               /\ JustCalled => (eng_txn = last.eng_before)

\* C12 amended: flush is performed only when the pushed frame closes a
\* transaction or the buffer has reached capacity, and then it is performed
\* unless is_txn was false and begin_txn failed: in that case the call
\* returns begin_txn's error without flushing, the frame stays at the back of
\* the buffer, and is_txn and the WAL are unchanged.  When the condition does
\* not hold the call returns Ok(None), begin_txn is not called, and the only
\* effect is the frame appended at the back of the buffer.
C12_FlushDecision ==
    Called
    => /\ last.flushed => FlushDue
       /\ (FlushDue /\ last.was_txn) => (last.flushed /\ last.begin = "none")
       /\ (FlushDue /\ ~last.was_txn)
            => /\ last.begin # "none"
               /\ ~last.flushed => (last.res = SqliteError /\ BufferOnly)
       /\ ~FlushDue
            => /\ ~last.flushed
               /\ last.res = None /\ last.begin = "none" /\ BufferOnly
               /\ JustCalled => (eng_txn = last.eng_before)

\* A frame is buffered, inside an open transaction, without a flush.
C12_Witness ==
    /\ JustCalled /\ ~FlushDue
    /\ last.was_txn /\ is_txn
    /\ buffer = <<last.frame>>
    /\ wal # <<>>

\* C13: is_txn starts false and changes only through a flush.  After an
\* inject_frame call it is true when the flush reported Open (whatever it was
\* before), false when the flush reported Committed and the outer COMMIT
\* succeeded or was tolerated (whatever it was before), and otherwise what it
\* was before the call: a buffer-only call, a failed flush and clear_buffer
\* leave it alone.
C13_IsTxnMachine ==
    Running
    => /\ ~Called => ~is_txn
       /\ Called
            => is_txn =
                 (IF last.sentinel = "LIBSQL_INJECT_OK_TXN" THEN TRUE
                  ELSE IF /\ last.sentinel = "LIBSQL_INJECT_OK"
                          /\ last.commit \in {"Ok", "Err201"}
                       THEN FALSE
                  ELSE last.was_txn)

\* is_txn, set by an earlier Open flush, is cleared by a Committed flush whose
\* outer COMMIT failed with the tolerated code, and a clear_buffer has run.
C13_Witness ==
    /\ Running /\ Called
    /\ last.was_txn /\ ~is_txn
    /\ last.sentinel = "LIBSQL_INJECT_OK" /\ last.commit = "Err201"
    /\ clears > 0

\* C14: the buffer is empty right after every flush that reports Committed or
\* Open, so the two emptiness assertions of flush never fail: the only panic
\* of the Injector is the one for a hook that was not called, for every
\* stream, capacity and interleaving of inject_frame and clear_buffer.
C14_AssertionsHold ==
    /\ (status = "panicked") => (last.sentinel = "not_called")
    /\ (Running /\ Called
          /\ last.sentinel \in {"LIBSQL_INJECT_OK", "LIBSQL_INJECT_OK_TXN"})
         => (buffer = <<>> /\ last.res.kind # "panic")

\* After a clear_buffer, a flush of two frames reported Open and passed its
\* assertion.
C14_Witness ==
    /\ Running /\ Called
    /\ clears > 0
    /\ last.sentinel = "LIBSQL_INJECT_OK_TXN"
    /\ Len(last.buf_before) >= 1
    /\ buffer = <<>>

\* The last call's flush got the Committed sentinel and its outer COMMIT
\* failed with the result named c.
CommitFailed(c) ==
    /\ status # "crashed" /\ Called
    /\ last.sentinel = "LIBSQL_INJECT_OK" /\ last.commit = c

\* What flush does when it swallows a failure of the outer COMMIT.
Swallowed ==
    /\ last.res = Some(last_frame_no(Append(last.buf_before, last.frame)))
    /\ ~is_txn

\* What flush does when it does not.
NotSwallowed ==
    /\ last.res = FatalInjectError
    /\ is_txn = last.was_txn

\* C15 as claimed: after a Committed sentinel, an outer COMMIT that fails
\* because no transaction is active is swallowed (is_txn cleared, the commit
\* frame number returned); a COMMIT that fails for any other reason makes
\* flush return FatalInjectError, no frame number, is_txn unchanged.
C15_Claim ==
    /\ CommitFailed("ErrNoTxn") => Swallowed
    /\ (CommitFailed("Err201") \/ CommitFailed("ErrOther")) => NotSwallowed

\* C15 amended: after a Committed sentinel, an outer COMMIT that fails with
\* the extended error code 201 is swallowed (is_txn cleared, the commit frame
\* number returned); a COMMIT that fails in any other way, SQLite's "no
\* transaction is active" error (SQLITE_ERROR) included, makes flush return
\* FatalInjectError, no frame number, is_txn unchanged.
C15_CommitFailure ==
    /\ CommitFailed("Err201") => Swallowed
    /\ (CommitFailed("ErrNoTxn") \/ CommitFailed("ErrOther")) => NotSwallowed

\* A COMMIT failure with code 201 was swallowed at the end of a transaction
\* flushed in two parts.
C15_Witness ==
    /\ CommitFailed("Err201")
    /\ Running /\ last.was_txn /\ ~is_txn
    /\ last.res.kind = "Some"

\* C16: a flush of a non-empty buffer returns nothing when the hook was not
\* invoked: if the forced write and the cache flush succeed, flush panics.  So
\* every Ok result of such a flush was decoded from a sentinel of the hook.
C16_NoResultWithoutHook ==
    Called
    => /\ (last.sentinel = "not_called")
            => (last.res = Panic /\ status = "panicked")
       /\ (last.flushed /\ last.res.kind \in {"None", "Some"})
            => last.sentinel \in {"LIBSQL_INJECT_OK", "LIBSQL_INJECT_OK_TXN"}

\* Inside an open transaction the forced write of a flush succeeded without
\* the hook, and the Injector panicked.
C16_Witness ==
    /\ status = "panicked"
    /\ last.sentinel = "not_called"
    /\ last.flushed /\ last.was_txn

\* The stream delivered so far has more frames than capacity and no closing
\* frame: the streams on which a buffer could grow past capacity "before a
\* closing frame is seen".
LongOpenStream ==
    /\ pos - 1 > capacity
    /\ \A i \in 1..(pos - 1) : ~Closes(log[i])

\* C17 as claimed: capacity is a soft threshold.  On an error-free stream
\* that delivers more than capacity frames before any closing frame, the
\* buffer holds more than capacity frames at some point.
C17_Claim ==
    (ErrorFree /\ NoClear /\ LongOpenStream) => (peak > capacity)

\* C17 amended: in an error-free run capacity is a hard bound.  The buffer
\* never holds more than capacity frames, not even right after a push, and
\* holds fewer than capacity frames between two calls, because the flush
\* that a full buffer triggers empties it whether or not a closing frame has
\* been seen.
C17_HardBound ==
    ErrorFree => (peak <= capacity /\ Len(buffer) < capacity)

\* A stream longer than capacity with no closing frame was delivered and the
\* buffer filled up to capacity, at least 2.
C17_Witness ==
    /\ ErrorFree /\ NoClear /\ LongOpenStream
    /\ capacity >= 2
    /\ peak = capacity

\* C19: in an error-free run, between two public calls is_txn is true exactly
\* when an engine transaction begun by the Injector is open; begin_txn is
\* called only with is_txn false and no engine transaction open, and once per
\* replicated transaction that has reached a flush (the transactions closed
\* so far, plus the one left open by an Open flush).
C19_TxnCorrespondence ==
    ErrorFree
    => /\ is_txn = eng_txn
       /\ (Called /\ last.begin # "none")
            => (last.begin = "idle" /\ ~last.was_txn /\ ~last.eng_before
                /\ last.flushed)
       /\ n_begin = n_closing + (IF is_txn THEN 1 ELSE 0)

\* A second transaction was begun after the first was committed, and is open.
C19_Witness ==
    /\ ErrorFree
    /\ n_begin = 2 /\ n_closing = 1
    /\ is_txn /\ eng_txn
    /\ last.begin = "idle"

\* C20: in an error-free run the buffer never holds frames of two
\* transactions.  Between two inject_frame calls no buffered frame closes a
\* transaction, and at the start of every flush at most one buffered frame
\* closes a transaction, and it is the frame at the back.
C20_OneTxnBuffered ==
    ErrorFree
    => /\ \A i \in 1..Len(buffer) : ~Closes(buffer[i])
       /\ (Called /\ last.flushed)
            => LET b == Append(last.buf_before, last.frame)
               IN \A i \in 1..Len(b) : Closes(b[i]) => (i = Len(b))

\* After a committed transaction, a flush of two frames of the next one.
C20_Witness ==
    /\ ErrorFree /\ Called
    /\ n_closing >= 1
    /\ last.flushed
    /\ Len(last.buf_before) >= 1
    /\ \A i \in 1..Len(wal) : Closes(wal[i]) <=> (i = 1)

\* Where a statement-level run stands when a lock() on the buffer, or on the
\* connection, is the next statement; where the engine is running under the
\* Injector's calls; where the Injector may hold the buffer lock.
AtBufferLock == pc \in {"push", "flush", "xFrames", "assert"}
                  \/ (pc = "condition" /\ ~Closes(log[pos]))
AtConnectionLock == pc \in {"begin_txn", "connection"}
InEngine == pc \in {"begin", "execute", "xFrames", "drain", "sentinel", "assert",
                    "is_empty"}
BufferLockUses == {"push_back", "len", "front_back", "drop", "is_empty"}

\* C18: the Injector holds the buffer lock only for the push, the length
\* check, the front/back read and the emptiness assertion of an inject_frame
\* call, never while it acquires the connection lock and never while the
\* engine runs the forced write; it holds the connection lock for the engine
\* part of flush and for all of begin_txn.  So the hook always finds the
\* buffer lock free, and no lock() of the call is ever made on a held mutex:
\* flush cannot deadlock.
C18_LockDiscipline ==
    /\ (buf_lock = "injector" /\ pc # "clear") => (pc \in BufferLockUses)
    /\ AtConnectionLock => (buf_lock = "free" /\ conn_lock = "free")
    /\ (pc \in {"execute", "xFrames", "drain", "sentinel"}) => (buf_lock # "injector")
    /\ InEngine => (conn_lock = "injector")
    /\ (conn_lock = "injector") => InEngine
    /\ AtBufferLock => (buf_lock = "free")

\* Inside the forced write of a flush, in an open transaction, the hook holds
\* the buffer lock while the Injector holds the connection lock.
C18_Witness ==
    /\ pc = "drain"
    /\ buf_lock = "hook" /\ conn_lock = "injector"
    /\ is_txn /\ Len(buffer) >= 2

====
